---- MODULE Spec2Model ----
(***************************************************************************)
(* A model of app.py: a Flask classroom application whose whole state is   *)
(* one JSON document (db.json) read and written wholesale by each request, *)
(* plus one signed cookie session per browser.                             *)
(*                                                                         *)
(* Text is modelled as a sequence of one-character strings so that         *)
(* str.strip() and int() are computed rather than assumed.  Python's None  *)
(* and an absent form field are the sentinels None and Absent.  The        *)
(* "classrooms" dict is a sequence of classrooms in insertion order (the   *)
(* order Python dicts and json keep), keyed by the field id.               *)
(***************************************************************************)
EXTENDS Integers, Sequences, FiniteSets, TLC

\* ---------------------------------------------------------------- bounds
MaxSize == 4        \* the largest Cost of a document a handler may save
MaxIdx == 2         \* largest single-digit assignment_idx a client sends
MaxSaves == 3       \* save_db calls of the interleaved handlers

CodeLen == 6

Browsers == {1, 2}
Procs == {1, 2}

\* ------------------------------------------------------------- text values
None == <<"None">>
Absent == <<"Absent">>
Empty == <<>>
Ava == <<"A", "v", "a">>
Ben == <<"B", "e", "n">>
Hi == <<"h", "i">>
Untitled == <<"U", "n", "t", "i", "t", "l", "e", "d">>
UntitledClassroom == Untitled \o <<" ">> \o <<"C", "l", "a", "s", "s", "r", "o", "o", "m">>
AssignmentTitle == <<"A", "s", "s", "i", "g", "n", "m", "e", "n", "t">>
DigitChars == <<"0", "1", "2", "3", "4", "5", "6", "7", "8", "9">>

IsSpace(ch) == ch \in {" ", "\t", "\n"}

RECURSIVE LStrip(_)
LStrip(s) == IF s # <<>> /\ IsSpace(Head(s)) THEN LStrip(Tail(s)) ELSE s

RECURSIVE RStrip(_)
RStrip(s) ==
    IF s # <<>> /\ IsSpace(s[Len(s)]) THEN RStrip(SubSeq(s, 1, Len(s) - 1)) ELSE s

\* str.strip()
Strip(s) == RStrip(LStrip(s))

\* request.form.get(key, default)
FormGet(v, default) == IF v = Absent THEN default ELSE v

DigitVal(ch) == CHOOSE d \in 0..9 : DigitChars[d + 1] = ch

IsDigit(ch) == \E d \in 0..9 : DigitChars[d + 1] = ch

RECURSIVE Decimal(_)
Decimal(s) ==
    IF s = <<>> THEN 0 ELSE 10 * Decimal(SubSeq(s, 1, Len(s) - 1)) + DigitVal(s[Len(s)])

\* str(i) of a one-digit index
IdxStr(i) == <<DigitChars[i + 1]>>

\* int(text): surrounding whitespace is dropped, one sign is allowed, and what is
\* left must be a non-empty run of decimal digits; anything else raises ValueError.
IntOfStr(raw) ==
    LET s == Strip(raw)
        signed == s # <<>> /\ Head(s) \in {"-", "+"}
        digits == IF signed THEN Tail(s) ELSE s
        good == digits # <<>> /\ \A i \in 1..Len(digits) : IsDigit(digits[i])
    IN  IF ~good THEN [ok |-> FALSE, val |-> 0]
        ELSE [ok |-> TRUE,
              val |-> IF signed /\ Head(s) = "-" THEN 0 - Decimal(digits)
                      ELSE Decimal(digits)]

\* int(request.form.get("assignment_idx", -1))
ParseIdx(raw) == IF raw = Absent THEN [ok |-> TRUE, val |-> -1] ELSE IntOfStr(raw)

\* generate_code: six draws of random.randint(0, 9), each through str(), joined
generate_code(draws) == [i \in 1..CodeLen |-> DigitChars[draws[i] + 1]]

\* ------------------------------------------------------------------ state
VARIABLES
    db,        \* the persisted document's "classrooms", in insertion order
    nextUuid,  \* uuid.uuid4(): the next unused classroom id
    sess,      \* sess[s]: the cookie session of browser s
    resp,      \* the last response sent: the flashed message and the page
    seen,      \* seen[s]: the classroom page browser s displays (ClientSpec)
    thr,       \* thr[p]: an interleaved handler p (ConcSpec)
    nsaves     \* save_db calls made by interleaved handlers (ConcSpec)

vars == <<db, nextUuid, sess, resp, seen, thr, nsaves>>

EmptySession == [user_name |-> None, role |-> "None", joined_classrooms |-> <<>>]

\* current_user
current_user(session) ==
    [name |-> session.user_name, role |-> session.role,
     joined |-> session.joined_classrooms]

NoPage == [cid |-> 0, assignments |-> <<>>]

\* A handler between requests.  pc is the handler's position; user, op, cid, a and
\* b are the request; local is the handler's in-memory document.  base (the
\* document as loaded), loadedAt and savedAt (the number of save_db calls made
\* before the load, and up to and with the handler's own save) record the history.
IdleThread ==
    [pc |-> "idle", user |-> current_user(EmptySession), op |-> "none", cid |-> 0,
     a |-> <<>>, b |-> <<>>, local |-> <<>>, base |-> <<>>, loadedAt |-> 0,
     savedAt |-> 0, flash |-> ""]

\* user["role"] == "Teacher" and user["name"] == classroom["teacher_name"]
IsOwner(user, classroom) ==
    user.role = "Teacher" /\ user.name = classroom.teacher_name

InSeq(x, s) == \E i \in 1..Len(s) : s[i] = x

\* db["classrooms"].get(class_id): the position of the classroom, 0 for None
Find(d, cid) ==
    IF \E i \in 1..Len(d) : d[i].id = cid
    THEN CHOOSE i \in 1..Len(d) : d[i].id = cid
    ELSE 0

RECURSIVE SumLen(_)
SumLen(assignments) ==
    IF assignments = <<>> THEN 0
    ELSE 1 + Len(Head(assignments).submissions) + SumLen(Tail(assignments))

\* the number of classrooms, announcements, lessons, assignments and submissions
RECURSIVE Size(_)
Size(d) ==
    IF d = <<>> THEN 0
    ELSE 1 + Len(Head(d).announcements) + Len(Head(d).lessons)
           + SumLen(Head(d).assignments) + Size(Tail(d))

\* json.load of the file
load_db == db

\* the content of the file after open(DATA_FILE, "w") and json.dump(data): the
\* document given, whatever the file held
save_db_KeepsOthers(data) ==
    data \o SelectSeq(db, LAMBDA c : \A i \in 1..Len(data) : data[i].id # c.id)

save_db(data) == data

\* What bounds the documents explored: the size, a classroom after the first
\* counted twice.
Cost(d) == Size(d) + (IF Len(d) > 1 THEN Len(d) - 1 ELSE 0)

Init ==
    /\ db = <<>>
    /\ nextUuid = 1
    /\ sess = [s \in Browsers |-> EmptySession]
    /\ resp = [flash |-> "", page |-> "none"]
    /\ seen = [s \in Browsers |-> NoPage]
    /\ thr = [p \in Procs |-> IdleThread]
    /\ nsaves = 0

\* flash(message) followed by the response
Reply(flash, page) == resp' = [flash |-> flash, page |-> page]

\* ------------------------------------------------------------------ inputs
\* the name and role fields of a login form
LoginInputs ==
    {<<Ava, "Teacher">>, <<<<" ">> \o Ben, "Teacher">>, <<Ben \o <<" ">>, "Student">>,
     <<<<" ">>, "Student">>, <<Absent, "Teacher">>, <<Ava, "Admin">>}
ClassNameInputs == {Absent}
VisibilityInputs == {"Absent", "Public", "Private", "Hidden"}
\* the six draws of one generate_code call
DrawInputs == {[i \in 1..CodeLen |-> i - 1]}
\* the values uuid.uuid4() returns, in the order it returns them
ClassIds == {1, 2}
ActionInputs ==
    {"post_announcement", "post_lesson", "post_assignment", "submit_assignment", "None"}
IdxInputs ==
    {Absent, Empty, <<"x">>, <<"-", "1">>, <<"1", "0">>}
        \cup {<<" ", DigitChars[d + 1]>> : d \in 0..MaxIdx}
\* the first and second form field an action of classroom_page reads
FieldA(action) ==
    CASE action = "post_announcement" -> {Absent, <<" ">>, <<" ">> \o Hi}
      [] action = "post_lesson" -> {Absent}
      [] action = "post_assignment" -> {Hi \o <<" ">>}
      [] action = "submit_assignment" -> IdxInputs
      [] OTHER -> {Absent}
FieldB(action) ==
    CASE action = "submit_assignment" -> {<<" ">> \o Hi}
      [] OTHER -> {Absent}
CodeInputs ==
    {Absent, <<"9", "9", "9", "9", "9", "9">>}
        \cup {<<" ">> \o generate_code(r) : r \in DrawInputs}

\* ------------------------------------------------------------------ login
login(s, nameIn, role) ==
    LET name == Strip(FormGet(nameIn, Empty))
    IN  /\ IF name = Empty \/ role \notin {"Teacher", "Student"}
           THEN /\ Reply("Please provide a name and role.", "redirect:login")
                /\ UNCHANGED sess
           ELSE /\ sess' = [sess EXCEPT ![s].user_name = name, ![s].role = role]
                /\ Reply("Logged in",
                         IF role = "Teacher" THEN "redirect:teacher_dashboard"
                         ELSE "redirect:index")
        /\ UNCHANGED <<db, nextUuid, thr, nsaves>>

logout(s) ==
    /\ sess' = [sess EXCEPT ![s] = EmptySession]
    /\ Reply("Logged out.", "redirect:index")
    /\ UNCHANGED <<db, nextUuid, thr, nsaves>>

\* -------------------------------------------------------- create_classroom
\* user["role"] != "Teacher" or not user["name"]
NotTeacher(user) == user.role # "Teacher" \/ user.name \in {None, Empty}

\* the classroom dict built at lines 95-108
NewClassroom(user, cid, nameIn, visIn, draws) ==
    LET name == Strip(FormGet(nameIn, UntitledClassroom))
        visibility == IF visIn = "Absent" THEN "Private" ELSE visIn
        code == IF visibility = "Private" THEN generate_code(draws) ELSE Empty
    IN  [id |-> cid, name |-> name, teacher_name |-> user.name,
         visibility |-> IF visibility # "Public" THEN "Private" ELSE "Public",
         code |-> code, announcements |-> <<>>, lessons |-> <<>>,
         assignments |-> <<>>]

\* db["classrooms"][cid] = classroom, cid a new key
PutClassroom(d, classroom) == Append(d, classroom)

create_classroom(s, nameIn, visIn, draws) ==
    LET user == current_user(sess[s])
    IN  /\ IF NotTeacher(user)
           THEN /\ Reply("Teacher access only.", "redirect:login")
                /\ UNCHANGED <<db, nextUuid>>
           ELSE /\ nextUuid \in ClassIds
                /\ db' = PutClassroom(db, NewClassroom(user, nextUuid, nameIn, visIn, draws))
                /\ Cost(db') <= MaxSize
                /\ nextUuid' = nextUuid + 1
                /\ Reply("Classroom created.", "redirect:teacher_dashboard")
        /\ UNCHANGED <<sess, thr, nsaves>>

\* ---------------------------------------------------------- classroom_page
\* CanView without the "joined in session" branch
CanView_OwnerOnly(user, classroom) ==
    \/ classroom.visibility # "Private"
    \/ IsOwner(user, classroom)

\* the access check for private classrooms, lines 132-140
CanView(user, classroom) ==
    \/ classroom.visibility # "Private"
    \/ IsOwner(user, classroom)
    \/ InSeq(classroom.id, user.joined)

\* CanPostContent checking the role and not the name
CanPostContent_AnyTeacher(user, classroom) == user.role = "Teacher"

\* lines 150 and 159
CanPostContent(user, classroom) == IsOwner(user, classroom)

\* CanPostAssignment without the visibility test
CanPostAssignment_AnyVisibility(user, classroom) == IsOwner(user, classroom)

\* line 168
CanPostAssignment(user, classroom) ==
    IsOwner(user, classroom) /\ classroom.visibility = "Private"

\* line 178
CanSubmit(user, classroom) ==
    /\ classroom.visibility = "Private"
    /\ (InSeq(classroom.id, user.joined) \/ IsOwner(user, classroom))

\* IndexValid with an inclusive upper end
IndexValid_Inclusive(idx, n) == 0 <= idx /\ idx <= n

\* line 181
IndexValid(idx, n) == 0 <= idx /\ idx < n

\* list.append(item) in place of list.insert(0, item)
InsertFront_AtEnd(list, item) == Append(list, item)

\* list.insert(0, item)
InsertFront(list, item) == <<item>> \o list

\* classroom["assignments"][assign_idx]["submissions"].append(...)
AddSubmission(assignments, idx, sub) ==
    [assignments EXCEPT ![idx + 1].submissions = Append(@, sub)]

\* The POST branch, lines 146-188, on a freshly loaded document d in which the
\* classroom is at position i: the document to save (saved tells whether save_db
\* is called) and the flashed message; ValueError is an exception no one catches.
PostAction(d, i, user, action, a, b) ==
    LET c == d[i]
        keep(flash) == [db |-> d, saved |-> FALSE, flash |-> flash]
        save(field, list, flash) ==
            [db |-> [d EXCEPT ![i] = [c EXCEPT ![field] = list]], saved |-> TRUE,
             flash |-> flash]
    IN  CASE action = "post_announcement" ->
               IF CanPostContent(user, c)
               THEN LET text == Strip(FormGet(a, Empty))
                    IN  IF text # Empty
                        THEN save("announcements",
                                  InsertFront(c.announcements, [text |-> text]),
                                  "Announcement posted.")
                        ELSE keep("")
               ELSE keep("Only the classroom teacher may post announcements.")
          [] action = "post_lesson" ->
               IF CanPostContent(user, c)
               THEN save("lessons",
                         InsertFront(c.lessons,
                                     [title |-> Strip(FormGet(a, Untitled)),
                                      body |-> Strip(FormGet(b, Empty))]),
                         "Lesson posted.")
               ELSE keep("Only the classroom teacher may post lessons.")
          [] action = "post_assignment" ->
               IF CanPostAssignment(user, c)
               THEN save("assignments",
                         InsertFront(c.assignments,
                                     [title |-> Strip(FormGet(a, AssignmentTitle)),
                                      desc |-> Strip(FormGet(b, Empty)),
                                      submissions |-> <<>>]),
                         "Assignment posted.")
               ELSE keep("Assignments allowed only in private classrooms by the teacher.")
          [] action = "submit_assignment" ->
               IF CanSubmit(user, c)
               THEN LET idx == ParseIdx(a)
                        text == Strip(FormGet(b, Empty))
                    IN  IF ~idx.ok THEN keep("ValueError")
                        ELSE IF IndexValid(idx.val, Len(c.assignments))
                        THEN save("assignments",
                                  AddSubmission(c.assignments, idx.val,
                                                [student |-> user.name, text |-> text]),
                                  "Assignment submitted.")
                        ELSE keep("Invalid assignment.")
               ELSE keep("You cannot submit assignments to this classroom.")
          [] OTHER -> keep("")

\* The whole handler, one request served alone.
classroom_page(s, cid, method, action, a, b) ==
    LET user == current_user(sess[s])
        i == Find(db, cid)
    IN  /\ IF i = 0
           THEN Reply("Classroom not found.", "redirect:index") /\ UNCHANGED db
           ELSE IF ~CanView(user, db[i])
           THEN Reply("This is a private classroom.", "redirect:index") /\ UNCHANGED db
           ELSE IF method = "GET"
           THEN Reply("", "classroom.html") /\ UNCHANGED db
           ELSE LET eff == PostAction(db, i, user, action, a, b)
                IN  /\ IF eff.flash = "ValueError"
                       THEN Reply("", "500")
                       ELSE Reply(eff.flash, "classroom.html")
                    /\ db' = eff.db
                    /\ Cost(db') <= MaxSize
        /\ UNCHANGED <<nextUuid, sess, thr, nsaves>>

\* ---------------------------------------------------------- join_classroom
\* the scan of lines 200-204: the first private classroom with this code, or 0
FindByCode(d, code) ==
    LET hits == {i \in 1..Len(d) : d[i].visibility = "Private" /\ d[i].code = code}
    IN  IF hits = {} THEN 0 ELSE CHOOSE i \in hits : \A j \in hits : i <= j

\* JoinAppend without the membership test
JoinAppend_Always(joined, id) == Append(joined, id)

\* lines 209-212
JoinAppend(joined, id) == IF ~InSeq(id, joined) THEN Append(joined, id) ELSE joined

join_classroom(s, codeIn) ==
    LET code == Strip(FormGet(codeIn, Empty))
        i == FindByCode(db, code)
    IN  /\ IF i = 0
           THEN Reply("Invalid join code.", "redirect:index") /\ UNCHANGED sess
           ELSE /\ sess' = [sess EXCEPT ![s].joined_classrooms = JoinAppend(@, db[i].id)]
                /\ Reply("Joined classroom.", "redirect:classroom_page")
        /\ UNCHANGED <<db, nextUuid, thr, nsaves>>

\* ----------------------------------------------------- classroom_info_json
\* The JSON body: the classroom's fields, "code" among them for the owner only.
InfoFields(user, classroom) ==
    IF ~IsOwner(user, classroom)
    THEN {"id", "name", "teacher_name", "visibility", "announcements", "lessons",
          "assignments"}
    ELSE {"id", "name", "teacher_name", "visibility", "code", "announcements",
          "lessons", "assignments"}

classroom_info_json(s, cid) ==
    LET user == current_user(sess[s])
        i == Find(db, cid)
    IN  /\ IF i = 0
           THEN Reply("", "json:404")
           ELSE IF "code" \in InfoFields(user, db[i])
           THEN Reply("", "json:all")
           ELSE Reply("", "json:nocode")
        /\ UNCHANGED <<db, nextUuid, sess, thr, nsaves>>

\* ------------------------------------------------------ one browser, alone
Requests(s) ==
    \/ \E f \in LoginInputs : login(s, f[1], f[2]) /\ UNCHANGED seen
    \/ logout(s) /\ UNCHANGED seen
    \/ \E n \in ClassNameInputs, v \in VisibilityInputs, r \in DrawInputs :
          create_classroom(s, n, v, r) /\ UNCHANGED seen
    \/ \E cid \in ClassIds :
          classroom_page(s, cid, "GET", "None", Absent, Absent) /\ UNCHANGED seen
    \/ \E cid \in ClassIds, action \in ActionInputs :
          \E a \in FieldA(action), b \in FieldB(action) :
             classroom_page(s, cid, "POST", action, a, b) /\ UNCHANGED seen
    \/ \E code \in CodeInputs : join_classroom(s, code) /\ UNCHANGED seen
    \/ \E cid \in ClassIds : classroom_info_json(s, cid) /\ UNCHANGED seen

Next == Requests(1)

Spec == Init /\ [][Next]_vars

\* ---------------------------------------------------- interleaved handlers
\* Handler p serves browser p.  Each load_db and save_db call is one step, so the
\* steps of two handlers interleave as those of two threads or worker processes do.
ConcLogins == {<<Ava, "Teacher">>, <<Ben, "Teacher">>}
ConcActions == {"post_announcement", "post_assignment", "submit_assignment"}
ConcFieldA(action) ==
    CASE action = "post_announcement" -> {Hi}
      [] action = "submit_assignment" -> {IdxStr(0)}
      [] OTHER -> {Absent}

Ready(p) == thr[p].pc \in {"idle", "done"}

\* a handler that returned without calling save_db
Returned(op, flash) == [IdleThread EXCEPT !.pc = "done", !.op = op, !.flash = flash]

\* login touches the cookie only
ConcLogin(p) ==
    /\ thr[p].pc = "idle"
    /\ \E f \in ConcLogins : login(p, f[1], f[2])
    /\ UNCHANGED seen

\* create_classroom, lines 91-108: the classroom is built before the document is read
CreateBegin(p, nameIn, visIn, draws) ==
    LET user == current_user(sess[p])
    IN  /\ Ready(p)
        /\ IF NotTeacher(user)
           THEN /\ thr' = [thr EXCEPT ![p] = Returned("create_classroom",
                                                      "Teacher access only.")]
                /\ UNCHANGED nextUuid
           ELSE /\ nextUuid \in ClassIds
                /\ nsaves < MaxSaves
                /\ thr' = [thr EXCEPT ![p] = [IdleThread EXCEPT
                               !.pc = "create_load", !.user = user,
                               !.op = "create_classroom", !.cid = nextUuid,
                               !.local = <<NewClassroom(user, nextUuid, nameIn, visIn,
                                                        draws)>>]]
                /\ nextUuid' = nextUuid + 1
        /\ UNCHANGED <<db, sess, resp, seen, nsaves>>

\* lines 109-110
CreateLoad(p) ==
    /\ thr[p].pc = "create_load"
    /\ thr' = [thr EXCEPT ![p].pc = "save",
                          ![p].base = load_db,
                          ![p].loadedAt = nsaves,
                          ![p].local = PutClassroom(load_db, thr[p].local[1])]
    /\ UNCHANGED <<db, nextUuid, sess, resp, seen, nsaves>>

\* classroom_page with method POST, lines 123-142
PageBegin(p, cid, action, a, b) ==
    LET user == current_user(sess[p])
        d == load_db
        i == Find(d, cid)
        req == [IdleThread EXCEPT !.user = user, !.op = action, !.cid = cid, !.a = a,
                                  !.b = b]
    IN  /\ Ready(p)
        /\ nsaves < MaxSaves
        /\ thr' = [thr EXCEPT ![p] =
                     IF i = 0 THEN Returned(action, "Classroom not found.")
                     ELSE IF ~CanView(user, d[i])
                     THEN Returned(action, "This is a private classroom.")
                     ELSE [req EXCEPT !.pc = "reload"]]
        /\ UNCHANGED <<db, nextUuid, sess, resp, seen, nsaves>>

\* lines 147-188 up to the save_db call: the reload and the change in memory.
\* A classroom that is no longer there makes classroom None, and the first
\* subscript of it raises TypeError.  A handler that saves nothing goes on to the
\* reload of lines 190-191 and the page, which change nothing.
PageReload(p) ==
    LET d == load_db
        i == Find(d, thr[p].cid)
        eff == PostAction(d, i, thr[p].user, thr[p].op, thr[p].a, thr[p].b)
    IN  /\ thr[p].pc = "reload"
        /\ thr' = [thr EXCEPT ![p] =
                     IF i = 0 THEN Returned(thr[p].op, "TypeError")
                     ELSE IF ~eff.saved THEN Returned(thr[p].op, eff.flash)
                     ELSE [@ EXCEPT !.pc = "save",
                                    !.base = d,
                                    !.loadedAt = nsaves,
                                    !.local = eff.db,
                                    !.flash = eff.flash]]
        /\ UNCHANGED <<db, nextUuid, sess, resp, seen, nsaves>>

\* save_db(db) and the flash that follows it: lines 111-113, 154-155, 172-173, 183-184
Save(p) ==
    /\ thr[p].pc = "save"
    /\ nsaves < MaxSaves
    /\ Cost(thr[p].local) <= MaxSize
    /\ db' = save_db(thr[p].local)
    /\ nsaves' = nsaves + 1
    /\ thr' = [thr EXCEPT ![p].pc = IF thr[p].op = "create_classroom" THEN "done"
                                    ELSE "render",
                          ![p].savedAt = nsaves + 1,
                          ![p].flash = IF thr[p].op = "create_classroom"
                                       THEN "Classroom created." ELSE @]
    /\ UNCHANGED <<nextUuid, sess, resp, seen>>

\* lines 190-193: the last reload and the page
PageRender(p) ==
    /\ thr[p].pc = "render"
    /\ thr' = [thr EXCEPT ![p].pc = "done"]
    /\ UNCHANGED <<db, nextUuid, sess, resp, seen, nsaves>>

ConcNext ==
    \E p \in Procs :
        \/ ConcLogin(p)
        \/ \E v \in {"Public", "Private"}, r \in DrawInputs : CreateBegin(p, Absent, v, r)
        \/ CreateLoad(p)
        \/ \E cid \in ClassIds, action \in ConcActions :
              \E a \in ConcFieldA(action) : PageBegin(p, cid, action, a, Hi)
        \/ PageReload(p)
        \/ Save(p)
        \/ PageRender(p)

ConcSpec == Init /\ [][ConcNext]_vars

\* ------------------------------------------- two browsers and their pages
\* What browser s displays after a response: the classroom page rendered from
\* the reloaded classroom (lines 190-193), or some other page.
Shows(s, cid) ==
    seen' = [seen EXCEPT ![s] =
                IF resp'.page = "classroom.html"
                THEN [cid |-> cid, assignments |-> db'[Find(db', cid)].assignments]
                ELSE NoPage]

ClientLogins == {<<Ava, "Teacher">>, <<Ben, "Student">>}
ClientTitles == {Absent, Hi}

\* a submission of the form under entry i of the assignment list browser s displays
SubmitListed(s, i) ==
    /\ i \in 0..(Len(seen[s].assignments) - 1)
    /\ classroom_page(s, seen[s].cid, "POST", "submit_assignment", IdxStr(i), Hi)
    /\ Shows(s, seen[s].cid)

ClientRequests(s) ==
    \/ \E f \in ClientLogins : login(s, f[1], f[2]) /\ Shows(s, 0)
    \/ \E r \in DrawInputs : create_classroom(s, Absent, "Private", r) /\ Shows(s, 0)
    \/ \E r \in DrawInputs : join_classroom(s, generate_code(r)) /\ Shows(s, 0)
    \/ \E cid \in ClassIds :
          classroom_page(s, cid, "GET", "None", Absent, Absent) /\ Shows(s, cid)
    \/ \E cid \in ClassIds, title \in ClientTitles :
          classroom_page(s, cid, "POST", "post_assignment", title, Absent) /\ Shows(s, cid)
    \/ \E i \in 0..MaxIdx : SubmitListed(s, i)

ClientNext == \E s \in Browsers : ClientRequests(s)

ClientSpec == Init /\ [][ClientNext]_vars

\* ================================================================= claims
\* the identity is the owning teacher, as the specification words it
OwningTeacher(s, c) == sess[s].role = "Teacher" /\ sess[s].user_name = c.teacher_name

Joined(s, c) == \E k \in 1..Len(sess[s].joined_classrooms) :
                    sess[s].joined_classrooms[k] = c.id

IsCode(code) == Len(code) = CodeLen /\ \A k \in 1..Len(code) : IsDigit(code[k])

Denied == [flash |-> "This is a private classroom.", page |-> "redirect:index"]

\* C1: every classroom is Public or Private; a Private one has a code of exactly six
\* decimal digits and a Public one has an empty code.
C1_CodeMatchesVisibility ==
    \A i \in 1..Len(db) :
        /\ db[i].visibility \in {"Public", "Private"}
        /\ db[i].visibility = "Private" => IsCode(db[i].code)
        /\ db[i].visibility = "Public" => db[i].code = Empty

\* C2: a GET of an existing classroom's page renders the classroom exactly when it
\* is Public, or the identity is its owning teacher, or its id is in the joined set;
\* otherwise the reply is the warning and the redirect to the landing view, and the
\* store is unchanged.
C2_ViewIffAllowed ==
    [][\A s \in Browsers, cid \in ClassIds :
          (classroom_page(s, cid, "GET", "None", Absent, Absent) /\ Find(db, cid) # 0) =>
              LET c == db[Find(db, cid)]
                  allowed == c.visibility = "Public" \/ OwningTeacher(s, c) \/ Joined(s, c)
              IN  /\ allowed <=> resp'.page = "classroom.html"
                  /\ ~allowed => resp' = Denied
                  /\ db' = db]_vars

\* a student who joined the only classroom, a private one, is shown its page
C2_Witness ==
    /\ Len(db) = 1
    /\ db[1].visibility = "Private"
    /\ sess[1].role = "Student"
    /\ Joined(1, db[1])
    /\ resp = [flash |-> "", page |-> "classroom.html"]

\* the replies that carry the classroom's name and content
Discloses(page) == page \in {"classroom.html", "json:all", "json:nocode"}

\* C3: no read addressed to a Private classroom, classroom_page or
\* classroom_info_json, returns its content to an identity that is neither its
\* owning teacher nor joined.
C3_PrivateContentWithheld ==
    [][\A s \in Browsers, cid \in ClassIds :
          (/\ \/ classroom_page(s, cid, "GET", "None", Absent, Absent)
              \/ classroom_info_json(s, cid)
           /\ Find(db, cid) # 0) =>
              LET c == db[Find(db, cid)]
              IN  (c.visibility = "Private" /\ ~OwningTeacher(s, c) /\ ~Joined(s, c))
                      => ~Discloses(resp'.page)]_vars

\* C4: a post_announcement or post_lesson request by an identity that is not the
\* owning teacher leaves the whole store unchanged: no step that changes the
\* store is such a request.
C4_NonOwnerPostChangesNothing ==
    [][\A s \in Browsers, cid \in ClassIds :
          (/\ Find(db, cid) # 0
           /\ ~OwningTeacher(s, db[Find(db, cid)])
           /\ db' # db) =>
              \A action \in {"post_announcement", "post_lesson"} :
                  \A a \in FieldA(action), b \in FieldB(action) :
                      ~classroom_page(s, cid, "POST", action, a, b)]_vars

\* a teacher who does not own the only classroom was refused an announcement
C4_Witness ==
    /\ Len(db) = 1
    /\ sess[1].role = "Teacher"
    /\ ~OwningTeacher(1, db[1])
    /\ db[1].announcements = <<>>
    /\ resp.flash = "Only the classroom teacher may post announcements."

PublicHasNoAssignments ==
    \A i \in 1..Len(db) : db[i].visibility = "Public" => db[i].assignments = <<>>

\* C5: every Public classroom has no assignments, after every step; a
\* post_assignment request changes the store only when the requester is the owning
\* teacher and the classroom is Private, and then it adds one assignment.
C5_NoAssignmentsInPublic ==
    [][/\ PublicHasNoAssignments'
       /\ \A s \in Browsers, cid \in ClassIds :
            Find(db, cid) # 0 =>
                LET i == Find(db, cid)
                IN  IF OwningTeacher(s, db[i]) /\ db[i].visibility = "Private"
                    THEN \A a \in FieldA("post_assignment"), b \in FieldB("post_assignment") :
                            classroom_page(s, cid, "POST", "post_assignment", a, b) =>
                                /\ Len(db'[i].assignments) = Len(db[i].assignments) + 1
                                /\ resp'.flash = "Assignment posted."
                    ELSE db' # db =>
                            \A a \in FieldA("post_assignment"),
                               b \in FieldB("post_assignment") :
                                ~classroom_page(s, cid, "POST", "post_assignment", a, b)]_vars

\* the owning teacher of the only classroom, a public one, was refused an assignment
C5_Witness ==
    /\ Len(db) = 1
    /\ db[1].visibility = "Public"
    /\ OwningTeacher(1, db[1])
    /\ resp.flash = "Assignments allowed only in private classrooms by the teacher."

\* the identity may submit to the classroom, as the specification words it
AuthorizedSubmitter(s, c) ==
    c.visibility = "Private" /\ (Joined(s, c) \/ OwningTeacher(s, c))

\* C6: for an authorized submitter and an integer index i, submit_assignment
\* appends {student, text} at the end of assignments[i].submissions and changes
\* nothing else exactly when 0 <= i < n; for every other i it answers "Invalid
\* assignment." and the store is unchanged.
C6_SubmitIndexRange ==
    [][\A s \in Browsers, cid \in ClassIds :
          (Find(db, cid) # 0 /\ AuthorizedSubmitter(s, db[Find(db, cid)])) =>
              \A a \in FieldA("submit_assignment"), b \in FieldB("submit_assignment") :
                  (ParseIdx(a).ok
                      /\ classroom_page(s, cid, "POST", "submit_assignment", a, b)) =>
                      LET k == Find(db, cid)
                          c == db[k]
                          i == ParseIdx(a).val
                          n == Len(c.assignments)
                          sub == [student |-> sess[s].user_name,
                                  text |-> Strip(FormGet(b, Empty))]
                      IN  IF 0 <= i /\ i < n
                          THEN /\ resp'.flash = "Assignment submitted."
                               /\ db' = [db EXCEPT ![k].assignments[i + 1].submissions =
                                                       c.assignments[i + 1].submissions \o <<sub>>]
                          ELSE /\ resp'.flash = "Invalid assignment."
                               /\ db' = db]_vars

\* a submission was accepted at index n - 1 of a classroom with n = 2 assignments
C6_Witness ==
    /\ Len(db) = 1
    /\ Len(db[1].assignments) = 2
    /\ db[1].assignments[1].submissions = <<>>
    /\ db[1].assignments[2].submissions # <<>>
    /\ resp.flash = "Assignment submitted."

\* C7: a submit_assignment request of an authorized submitter whose index is absent
\* or is not an integer is answered with a validation message on the normal page,
\* not with an uncaught exception, and leaves the store unchanged.
C7_MalformedIndexRejected ==
    [][\A s \in Browsers, cid \in ClassIds :
          (Find(db, cid) # 0 /\ AuthorizedSubmitter(s, db[Find(db, cid)])) =>
              \A a \in FieldA("submit_assignment"), b \in FieldB("submit_assignment") :
                  ((a = Absent \/ ~ParseIdx(a).ok)
                      /\ classroom_page(s, cid, "POST", "submit_assignment", a, b)) =>
                      /\ resp'.page = "classroom.html"
                      /\ resp'.flash = "Invalid assignment."
                      /\ db' = db]_vars

Count(x, seq) == Cardinality({k \in 1..Len(seq) : seq[k] = x})

\* C9: a join whose code matches a Private classroom leaves that classroom's id
\* exactly once in the joined list, and leaves the list as it was when the id was
\* already in it; a join whose code matches no Private classroom leaves the list
\* unchanged.
C9_JoinIdempotent ==
    [][\A s \in Browsers, codeIn \in CodeInputs :
          join_classroom(s, codeIn) =>
              LET code == Strip(FormGet(codeIn, Empty))
                  hits == {i \in 1..Len(db) :
                              db[i].visibility = "Private" /\ db[i].code = code}
                  before == sess[s].joined_classrooms
                  after == sess'[s].joined_classrooms
              IN  IF hits = {} THEN after = before
                  ELSE \E i \in hits :
                          /\ resp'.flash = "Joined classroom."
                          /\ Count(db[i].id, after) = 1
                          /\ Joined(s, db[i]) => after = before
                          /\ ~Joined(s, db[i]) => after = Append(before, db[i].id)]_vars

\* two private classrooms share a code and a join by that code was answered
\* with the first of them in the joined list, once
C9_Witness ==
    /\ Len(db) = 2
    /\ db[1].visibility = "Private" /\ db[2].visibility = "Private"
    /\ db[1].code = db[2].code
    /\ sess[1].joined_classrooms = <<db[1].id>>
    /\ resp.flash = "Joined classroom."

\* C10: a successful post_assignment puts the new assignment at index 0 and moves
\* every existing assignment from index i to index i + 1 unchanged; so a
\* submit_assignment with an index i read from a page rendered before such an
\* insert is accepted without error and its submission lands on the assignment now
\* at index i, which is not the one the client selected: that one is now further
\* down the list, and receives nothing.
C10_InsertShiftsIndices ==
    [][\A s \in Browsers :
          /\ \A cid \in ClassIds, title \in ClientTitles :
                (/\ classroom_page(s, cid, "POST", "post_assignment", title, Absent)
                 /\ Find(db, cid) # 0
                 /\ resp'.flash = "Assignment posted.") =>
                    LET old == db[Find(db, cid)].assignments
                        new == db'[Find(db, cid)].assignments
                    IN  /\ Len(new) = Len(old) + 1
                        /\ new[1] = [title |-> Strip(FormGet(title, AssignmentTitle)),
                                     desc |-> Empty, submissions |-> <<>>]
                        /\ \A j \in 1..Len(old) : new[j + 1] = old[j]
          /\ \A i \in 0..MaxIdx :
                (/\ SubmitListed(s, i)
                 /\ Find(db, seen[s].cid) # 0) =>
                    LET k == Find(db, seen[s].cid)
                        c == db[k]
                        listed == seen[s].assignments
                        shift == Len(c.assignments) - Len(listed)
                        sub == [student |-> sess[s].user_name, text |-> Hi]
                    IN  (/\ shift > 0
                         /\ c.visibility = "Private"
                         /\ (Joined(s, c) \/ OwningTeacher(s, c))) =>
                            /\ resp' = [flash |-> "Assignment submitted.",
                                        page |-> "classroom.html"]
                            /\ db'[k].assignments[i + 1].submissions =
                                   Append(c.assignments[i + 1].submissions, sub)
                            /\ c.assignments[i + 1 + shift].title = listed[i + 1].title
                            /\ db'[k].assignments[i + 1 + shift] =
                                   c.assignments[i + 1 + shift]]_vars

\* browser 2, joined, still displays the list of one assignment after the teacher
\* has posted a second one: the entry it lists at index 0 is now at index 1
C10_Witness ==
    /\ Len(db) = 1
    /\ Joined(2, db[1])
    /\ seen[2].cid = db[1].id
    /\ Len(seen[2].assignments) = 1
    /\ Len(db[1].assignments) = 2
    /\ db[1].assignments[2] = seen[2].assignments[1]
    /\ db[1].assignments[1].title # seen[2].assignments[1].title
    /\ resp.flash = "Assignment posted."

\* The items of a document, each with its place: <<classroom id, kind, position
\* counted from the oldest, position of a submission, content>>.  Lists grow at the
\* front (submissions at the end), so an item keeps its place while it exists.
ItemsOf(c) ==
    LET na == Len(c.announcements)
        nl == Len(c.lessons)
        ns == Len(c.assignments)
    IN  {<<c.id, "classroom", 0, 0, <<c.name, c.teacher_name>>>>}
        \cup {<<c.id, "announcement", na - j + 1, 0, <<c.announcements[j].text, Empty>>>> :
                 j \in 1..na}
        \cup {<<c.id, "lesson", nl - j + 1, 0, <<c.lessons[j].title, c.lessons[j].body>>>> :
                 j \in 1..nl}
        \cup {<<c.id, "assignment", ns - j + 1, 0,
                <<c.assignments[j].title, c.assignments[j].desc>>>> : j \in 1..ns}
        \cup UNION {{<<c.id, "submission", ns - j + 1, k,
                       <<c.assignments[j].submissions[k].student,
                         c.assignments[j].submissions[k].text>>>> :
                        k \in 1..Len(c.assignments[j].submissions)} : j \in 1..ns}

Items(d) == UNION {ItemsOf(d[i]) : i \in 1..Len(d)}

\* what handler p added to the document it loaded
Change(p) == Items(thr[p].local) \ Items(thr[p].base)

\* handler p has called save_db and flashed its success message
Saved(p) == thr[p].savedAt > 0 /\ thr[p].pc \in {"render", "done"}

SuccessMessages ==
    {"Classroom created.", "Announcement posted.", "Lesson posted.",
     "Assignment posted.", "Assignment submitted."}

\* q made the latest save and p the one before it
LastTwoSaves(p, q) ==
    /\ p # q
    /\ Saved(p) /\ Saved(q)
    /\ thr[q].savedAt = nsaves
    /\ thr[p].savedAt = nsaves - 1

\* q loaded the document before p saved
Overlapped(p, q) == thr[q].loadedAt < thr[p].savedAt

\* C8: when two handlers have saved one after the other and both reported
\* success, the persisted document is the later writer's whole document: what it
\* loaded plus its one change.  If the later writer loaded before the earlier one
\* saved, the earlier writer's change is not in the store; if it loaded after, both
\* changes are.
C8_LaterSaveWins ==
    \A p, q \in Procs :
        LastTwoSaves(p, q) =>
            /\ thr[p].flash \in SuccessMessages /\ thr[q].flash \in SuccessMessages
            /\ db = thr[q].local
            /\ Cardinality(Change(p)) = 1 /\ Cardinality(Change(q)) = 1
            /\ Items(db) = Items(thr[q].base) \cup Change(q)
            /\ IF Overlapped(p, q)
               THEN (Change(p) # Change(q) /\ Change(p) \cap Items(thr[q].base) = {})
                        => Change(p) \cap Items(db) = {}
               ELSE /\ thr[q].base = thr[p].local
                    /\ Change(p) \subseteq Items(db)

\* two handlers changed different classrooms, both loaded before either saved,
\* both reported success, and the store lacks the earlier writer's change
C8_Witness ==
    \E p, q \in Procs :
        /\ LastTwoSaves(p, q)
        /\ Overlapped(p, q)
        /\ thr[p].cid # thr[q].cid
        /\ thr[p].op # "create_classroom"
        /\ thr[p].flash \in SuccessMessages /\ thr[q].flash \in SuccessMessages
        /\ Change(p) \cap Items(db) = {}
        /\ Change(q) \subseteq Items(db)

\* two handlers ran one after the other and the store holds both changes
C8_WitnessSequential ==
    \E p, q \in Procs :
        /\ LastTwoSaves(p, q)
        /\ ~Overlapped(p, q)
        /\ Change(p) \cup Change(q) \subseteq Items(db)
====
